---- MODULE Spec2Model ----
(***************************************************************************)
(* A model of src/firebase_service.py: the FirebaseService singleton, its  *)
(* initialize() step, the get_collection() context manager and the         *)
(* set/get/update document helpers, together with the parts of the         *)
(* firebase_admin / Firestore client the module calls into (the app        *)
(* registry and a document store).                                         *)
(***************************************************************************)
EXTENDS Integers, Sequences, FiniteSets, TLC

\* ------------------------------------------------------------------ bounds
\* How many required fields a generated credentials file may leave out.
MaxMissing == 1

\* ------------------------------------------------------------- input values
\* Python values passed as collection_name: two proper names, the empty
\* string, None and a truthy non-string (the int 5).
Str(s) == [isstr |-> TRUE, s |-> s]
NonStr(s) == [isstr |-> FALSE, s |-> s]
CollNames == {"users", "events"}
EmptyName == Str("")
NoneName == NonStr("None")
IntName == NonStr("5")
Names == {Str(s) : s \in CollNames} \cup {EmptyName, NoneName, IntName}
\* bool(x) and isinstance(x, str) of such a value
Truthy(n) == n.s \notin {"", "None"}
IsStr(n) == n.isstr

\* Document identifiers: a proper one, and one that is no single path segment.
DocIds == {"d1"}
BadIds == {"a/b"}
Ids == DocIds \cup BadIds

\* Document data: a dict is a functional set of <<key, value>> pairs; the
\* other Python values a caller may pass are None and a non-empty list.
Keys == {"a", "b"}
Vals == {"x"}
Functional(m) == \A p \in m : \A q \in m : p[1] = q[1] => p = q
Mappings == {m \in SUBSET (Keys \X Vals) : Functional(m)}
Dict(m) == [kind |-> "dict", m |-> m]
NoneData == [kind |-> "None", m |-> {}]
ListData == [kind |-> "list", m |-> {}]
Datas == {Dict(m) : m \in Mappings} \cup {NoneData, ListData}
\* bool(data) and isinstance(data, dict)
DataTruthy(d) == (d.kind = "dict" /\ d.m # {}) \/ d.kind = "list"
IsDict(d) == d.kind = "dict"

\* A service-account file as initialize() sees it.
required_fields ==
    << "type", "project_id", "private_key_id", "private_key",
       "client_email", "client_id", "auth_uri", "token_uri" >>
RequiredSet == {required_fields[i] : i \in 1..Len(required_fields)}
File(exists, readable, isdir, json, fields, cert) ==
    [exists |-> exists, readable |-> readable, isdir |-> isdir,
     json |-> json, fields |-> fields, cert |-> cert]
FieldSets == {RequiredSet \ x : x \in {y \in SUBSET RequiredSet : Cardinality(y) <= MaxMissing}}
Files ==
    {File(FALSE, FALSE, FALSE, "invalid", {}, FALSE),
     File(TRUE, FALSE, FALSE, "invalid", {}, FALSE),
     File(TRUE, TRUE, TRUE, "invalid", {}, FALSE),
     File(TRUE, TRUE, FALSE, "invalid", {}, FALSE),
     File(TRUE, TRUE, FALSE, "number", {}, FALSE)}
    \cup {File(TRUE, TRUE, FALSE, "object", fs, c) : fs \in FieldSets, c \in BOOLEAN}
    \cup {File(TRUE, TRUE, FALSE, "array", fs, FALSE) : fs \in FieldSets}
Paths == {"sa.json"}
\* What firestore.client() may do at line 78.
ClientFaults == {"none", "FirebaseError", "ImportError"}


\* ------------------------------------------------------------------- state
VARIABLES
    instance,              \* FirebaseService._instance: "None" or "obj"
    class_initialized,     \* FirebaseService._initialized
    db,                    \* self.db: 0 is None, n the client of the n-th app
    initialized,           \* self.initialized
    service_account_path,  \* self._service_account_path ("None" or a path)
    apps,                  \* firebase_admin: how many default apps were created
    store,                 \* the remote documents, by <<collection, id>>
    pc,                    \* the caller's position: "idle" or "in_block"
    collection_ref,        \* get_collection's local while its generator lives
    held,                  \* the caller's `as` variable of its last with-block
    last,                  \* the last call: arguments, result, exception
    trail                  \* the successful set() calls in a row on one document

vars == << instance, class_initialized, db, initialized, service_account_path,
           apps, store, pc, collection_ref, held, last, trail >>

Docs == CollNames \X DocIds
Absent == [exists |-> FALSE, m |-> {}]
Present(m) == [exists |-> TRUE, m |-> m]
NoRef == "None"
NoFile == File(FALSE, FALSE, FALSE, "invalid", {}, FALSE)
NoTrail == [c |-> "None", id |-> "None", ds |-> << >>]

\* The record of one call. c, id, data, file and fault are the arguments (and
\* the environment's answer); ret is the returned bool (for get_document:
\* whether a dict came back, val being that dict); raised is the exception
\* that left the call; remote says whether the store was asked anything.
Call(op, c, id, data, file, ret, val, raised, remote, note) ==
    [op |-> op, c |-> c, id |-> id, data |-> data, file |-> file, ret |-> ret,
     val |-> val, raised |-> raised, remote |-> remote, note |-> note]
NoCall == Call("import", NoneName, "None", NoneData, NoFile, FALSE, {}, "none", FALSE, "none")

Init ==
    /\ instance = "None"
    /\ class_initialized = FALSE
    /\ db = 0
    /\ initialized = FALSE
    /\ service_account_path = "None"
    /\ apps = 0
    /\ store = [d \in Docs |-> Absent]
    /\ pc = "idle"
    /\ collection_ref = NoRef
    /\ held = NoRef
    /\ last = NoCall
    /\ trail = NoTrail

\* ------------------------------------------------- __new__ / __init__ (31-41)
\* __init__ resets the instance's fields only while _initialized is False.
InitResetsAlways(ci) == TRUE
init_resets(ci) == ~ci

Construct ==
    /\ instance' = "obj"
    /\ IF init_resets(class_initialized)
         THEN /\ db' = 0
              /\ initialized' = FALSE
              /\ service_account_path' = "None"
              /\ class_initialized' = TRUE
         ELSE UNCHANGED << db, initialized, service_account_path, class_initialized >>
    /\ last' = Call("construct", NoneName, "None", NoneData, NoFile, TRUE, {}, "none", FALSE, "none")
    /\ trail' = NoTrail
    /\ UNCHANGED << apps, store, pc, collection_ref, held >>

\* ------------------------------------------------------- initialize (43-93)
\* `field not in service_account` for some required field (69-72): dict keys
\* or list elements.
MissingFieldFirstOnly(f) == required_fields[1] \notin f.fields
MissingField(f) == \E i \in 1..Len(required_fields) : required_fields[i] \notin f.fields

\* The try body, up to its first return or exception: the stage it ends in,
\* the exception raised there, and whether initialize_app / the assignments
\* of lines 78-80 were executed.
Run(stage, exc, connect, created, assigned) ==
    [stage |-> stage, exc |-> exc, connect |-> connect, created |-> created,
     assigned |-> assigned]
initialize_body(f, napps, fault) ==
    IF ~f.exists THEN Run("not_found", "none", FALSE, FALSE, FALSE)
    ELSE IF ~f.readable THEN Run("not_readable", "none", FALSE, FALSE, FALSE)
    ELSE IF f.isdir THEN Run("open", "OSError", FALSE, FALSE, FALSE)
    ELSE IF f.json = "invalid" THEN Run("json", "JSONDecodeError", FALSE, FALSE, FALSE)
    ELSE IF f.json = "number" THEN Run("fields", "TypeError", FALSE, FALSE, FALSE)
    ELSE IF MissingField(f) THEN Run("missing_field", "none", FALSE, FALSE, FALSE)
    ELSE IF f.json # "object" THEN Run("certificate", "AttributeError", FALSE, FALSE, FALSE)
    ELSE IF ~f.cert THEN Run("certificate", "ValueError", FALSE, FALSE, FALSE)
    ELSE IF napps > 0 THEN Run("initialize_app", "ValueError", TRUE, FALSE, FALSE)
    ELSE IF fault # "none" THEN Run("client", fault, TRUE, TRUE, FALSE)
    ELSE Run("done", "none", TRUE, TRUE, TRUE)

\* The except clauses (85-93): which exceptions of the try body are caught.
InitializeCatchesNamedOnly(exc) == exc \in {"JSONDecodeError", "FirebaseError"}
initialize_catches(exc) == exc # "none"

initialize(path, f, fault) ==
    /\ instance = "obj"
    /\ LET r == initialize_body(f, apps, fault)
           escaped == IF initialize_catches(r.exc) THEN "none" ELSE r.exc
       IN /\ apps' = IF r.created THEN apps + 1 ELSE apps
          /\ IF r.assigned
               THEN /\ db' = apps'
                    /\ service_account_path' = path
                    /\ initialized' = TRUE
               ELSE UNCHANGED << db, service_account_path, initialized >>
          /\ last' = Call("initialize", NoneName, path, NoneData, f, r.stage = "done",
                          {}, escaped, r.connect, r.stage)
    /\ trail' = NoTrail
    /\ UNCHANGED << instance, class_initialized, store, pc, collection_ref, held >>

\* --------------------------------------------------- get_collection (95-124)
\* The checks before the try (110-114): the exception they raise, or "none".
GetCollectionCheckNoState(init, dbv, name) ==
    IF ~Truthy(name) \/ ~IsStr(name) THEN "ValueError" ELSE "none"
get_collection_check(init, dbv, name) ==
    IF ~init \/ dbv = 0 THEN "RuntimeError"
    ELSE IF ~Truthy(name) \/ ~IsStr(name) THEN "ValueError"
    ELSE "none"

\* The except clauses around the yield (119-124) log and re-raise: the
\* exception that leaves the context manager for one thrown into it.
GetCollectionSwallows(exc) == "none"
get_collection_reraise(exc) == exc

\* collection.document(document_id): the client refuses an identifier that is
\* not one path segment (ValueError), before anything is sent.
DocPathOk(id) == id \in DocIds

\* What happens inside `with self.get_collection(c) as collection:` when the
\* block performs one store request on document id: the exception the with
\* statement ends with, and whether the request was sent.
WithRequest(init, dbv, c, id, fail) ==
    LET chk == get_collection_check(init, dbv, c) IN
    IF chk # "none" THEN [exc |-> chk, remote |-> FALSE, served |-> FALSE]
    ELSE IF ~DocPathOk(id)
      THEN [exc |-> get_collection_reraise("ValueError"), remote |-> FALSE, served |-> FALSE]
    ELSE IF fail
      THEN [exc |-> get_collection_reraise("GoogleAPICallError"), remote |-> TRUE,
            served |-> FALSE]
    ELSE [exc |-> "none", remote |-> TRUE, served |-> TRUE]

\* --------------------------------------------------- set_document (126-153)
Res(ret, val, raised, remote, write, note) ==
    [ret |-> ret, val |-> val, raised |-> raised, remote |-> remote,
     write |-> write, note |-> note]

SetDocumentUnguarded(init, dbv, c, id, data, fail) ==
    LET w == WithRequest(init, dbv, c, id, fail) IN
    IF w.exc # "none" THEN Res(FALSE, {}, w.exc, w.remote, FALSE, "raised")
    ELSE IF ~w.served THEN Res(FALSE, {}, "none", w.remote, FALSE, "fell_through")
    ELSE Res(TRUE, {}, "none", TRUE, TRUE, "ok")
SetDocumentReportsSuccess(init, dbv, c, id, data, fail) ==
    IF ~init THEN Res(FALSE, {}, "none", FALSE, FALSE, "not_initialized")
    ELSE IF ~DataTruthy(data) \/ ~IsDict(data)
      THEN Res(FALSE, {}, "none", FALSE, FALSE, "bad_data")
    ELSE LET w == WithRequest(init, dbv, c, id, fail) IN
         IF w.exc # "none" THEN Res(TRUE, {}, "none", w.remote, FALSE, "failed")
         ELSE IF ~w.served THEN Res(FALSE, {}, "none", w.remote, FALSE, "fell_through")
         ELSE Res(TRUE, {}, "none", TRUE, TRUE, "ok")
SetDocumentNoDataCheck(init, dbv, c, id, data, fail) ==
    IF ~init THEN Res(FALSE, {}, "none", FALSE, FALSE, "not_initialized")
    ELSE LET w == WithRequest(init, dbv, c, id, fail) IN
         IF w.exc # "none" THEN Res(FALSE, {}, "none", w.remote, FALSE, "failed")
         ELSE IF ~w.served THEN Res(FALSE, {}, "none", w.remote, FALSE, "fell_through")
         ELSE Res(TRUE, {}, "none", TRUE, TRUE, "ok")
set_document_body(init, dbv, c, id, data, fail) ==
    IF ~init THEN Res(FALSE, {}, "none", FALSE, FALSE, "not_initialized")
    ELSE IF ~DataTruthy(data) \/ ~IsDict(data)
      THEN Res(FALSE, {}, "none", FALSE, FALSE, "bad_data")
    ELSE LET w == WithRequest(init, dbv, c, id, fail) IN
         IF w.exc # "none" THEN Res(FALSE, {}, "none", w.remote, FALSE, "failed")
         ELSE IF ~w.served THEN Res(FALSE, {}, "none", w.remote, FALSE, "fell_through")
         ELSE Res(TRUE, {}, "none", TRUE, TRUE, "ok")

\* DocumentReference.set(data) without merge: the stored mapping becomes data.
SetMerges(old, m) == Present({p \in old.m : \A q \in m : q[1] # p[1]} \cup m)
provider_set(old, m) == Present(m)

\* The trail after a call: a successful set() extends it when the call before
\* was a successful set() on the same document, and starts it otherwise; a
\* get_document keeps it; every other call clears it.
TrailPush(c, id, m) ==
    IF trail.c = c /\ trail.id = id /\ last.op = "set" /\ last.ret
      THEN [trail EXCEPT !.ds = IF Len(@) < 2 THEN Append(@, m) ELSE << @[2], m >>]
      ELSE [c |-> c, id |-> id, ds |-> << m >>]

set_document(c, id, data, fail) ==
    /\ instance = "obj"
    /\ LET r == set_document_body(initialized, db, c, id, data, fail) IN
       /\ store' = IF r.write
                     THEN [store EXCEPT ![<< c.s, id >>] = provider_set(@, data.m)]
                     ELSE store
       /\ last' = Call("set", c, id, data, NoFile, r.ret, {}, r.raised, r.remote, r.note)
       /\ trail' = IF r.ret THEN TrailPush(c.s, id, data.m) ELSE NoTrail
    /\ UNCHANGED << instance, class_initialized, db, initialized,
                    service_account_path, apps, pc, collection_ref, held >>

\* --------------------------------------------------- get_document (155-180)
GetDocumentEmptyForMissing(init, dbv, st, c, id, fail) ==
    IF ~init THEN Res(FALSE, {}, "none", FALSE, FALSE, "not_initialized")
    ELSE LET w == WithRequest(init, dbv, c, id, fail) IN
         IF w.exc # "none" THEN Res(FALSE, {}, "none", w.remote, FALSE, "failed")
         ELSE IF ~w.served THEN Res(FALSE, {}, "none", w.remote, FALSE, "fell_through")
         ELSE Res(TRUE, st[<< c.s, id >>].m, "none", TRUE, FALSE, "ok")
get_document_body(init, dbv, st, c, id, fail) ==
    IF ~init THEN Res(FALSE, {}, "none", FALSE, FALSE, "not_initialized")
    ELSE LET w == WithRequest(init, dbv, c, id, fail) IN
         IF w.exc # "none" THEN Res(FALSE, {}, "none", w.remote, FALSE, "failed")
         ELSE IF ~w.served THEN Res(FALSE, {}, "none", w.remote, FALSE, "fell_through")
         ELSE IF st[<< c.s, id >>].exists
           THEN Res(TRUE, st[<< c.s, id >>].m, "none", TRUE, FALSE, "ok")
         ELSE Res(FALSE, {}, "none", TRUE, FALSE, "not_found")

get_document(c, id, fail) ==
    /\ instance = "obj"
    /\ LET r == get_document_body(initialized, db, store, c, id, fail) IN
       last' = Call("get", c, id, NoneData, NoFile, r.ret, r.val, r.raised, r.remote, r.note)
    /\ UNCHANGED << instance, class_initialized, db, initialized, service_account_path,
                    apps, store, pc, collection_ref, held, trail >>

\* ------------------------------------------------ update_document (182-...)
\* The source ends inside the docstring; the body follows the specification:
\* the same guards as set_document, then a merge that keeps the fields the
\* updates do not name. Whether a missing document is created or refused is
\* the provider call's choice (create).
Merge(old, m) == {p \in old : \A q \in m : q[1] # p[1]} \cup m
update_document_body(init, dbv, st, c, id, data, fail, create) ==
    IF ~init THEN Res(FALSE, {}, "none", FALSE, FALSE, "not_initialized")
    ELSE IF ~DataTruthy(data) \/ ~IsDict(data)
      THEN Res(FALSE, {}, "none", FALSE, FALSE, "bad_data")
    ELSE LET w == WithRequest(init, dbv, c, id, fail) IN
         IF w.exc # "none" THEN Res(FALSE, {}, "none", w.remote, FALSE, "failed")
         ELSE IF ~w.served THEN Res(FALSE, {}, "none", w.remote, FALSE, "fell_through")
         ELSE IF ~st[<< c.s, id >>].exists /\ ~create
           THEN Res(FALSE, {}, "none", TRUE, FALSE, "not_found")
         ELSE Res(TRUE, {}, "none", TRUE, TRUE, "ok")

update_document(c, id, data, fail, create) ==
    /\ instance = "obj"
    /\ LET r == update_document_body(initialized, db, store, c, id, data, fail, create) IN
       /\ store' = IF r.write
                     THEN [store EXCEPT ![<< c.s, id >>] = Present(Merge(@.m, data.m))]
                     ELSE store
       /\ last' = Call("update", c, id, data, NoFile, r.ret, {}, r.raised, r.remote, r.note)
    /\ trail' = NoTrail
    /\ UNCHANGED << instance, class_initialized, db, initialized,
                    service_account_path, apps, pc, collection_ref, held >>

\* ------------------------------------- a caller's own with-block (95-124)
\* `with service.get_collection(name) as col:` entered by a caller.
EnterBlock(name) ==
    /\ instance = "obj"
    /\ pc = "idle"
    /\ LET chk == get_collection_check(initialized, db, name) IN
       /\ IF chk = "none"
            THEN /\ pc' = "in_block"
                 /\ collection_ref' = name.s
                 /\ held' = name.s
            ELSE UNCHANGED << pc, collection_ref, held >>
       /\ last' = Call("enter", name, "None", NoneData, NoFile, chk = "none", {}, chk,
                       FALSE, IF chk = "none" THEN "yielded" ELSE "refused")
    /\ trail' = NoTrail
    /\ UNCHANGED << instance, class_initialized, db, initialized,
                    service_account_path, apps, store >>

\* One request through the handle the caller holds: col.document(id).set(m)
\* or col.document(id).get(). The handle is a plain collection reference of
\* the client library; nothing in get_collection marks it as closed.
HandleRequest(kind, id, m, fail, scope) ==
    LET exc == IF ~DocPathOk(id) THEN "ValueError"
               ELSE IF fail THEN "GoogleAPICallError" ELSE "none"
        sent == DocPathOk(id)
        d == << held, id >>
    IN /\ store' = IF exc = "none" /\ kind = "set"
                     THEN [store EXCEPT ![d] = provider_set(@, m)]
                     ELSE store
       /\ last' = Call(IF kind = "set" THEN "handle_set" ELSE "handle_get", Str(held), id,
                       Dict(m), NoFile, exc = "none" /\ (kind = "set" \/ store[d].exists),
                       IF exc = "none" /\ kind = "get" THEN store[d].m ELSE {},
                       IF scope = "in_block" THEN get_collection_reraise(exc) ELSE exc,
                       sent, scope)
       /\ trail' = NoTrail

\* Inside the block. An exception of the request is thrown into the generator
\* at its yield, which logs it and re-raises: the block ends.
BlockRequest(kind, id, m, fail) ==
    /\ pc = "in_block"
    /\ HandleRequest(kind, id, m, fail, "in_block")
    /\ IF DocPathOk(id) /\ ~fail
         THEN UNCHANGED << pc, collection_ref >>
         ELSE pc' = "idle" /\ collection_ref' = NoRef
    /\ UNCHANGED << instance, class_initialized, db, initialized,
                    service_account_path, apps, held >>

\* The block ends: it runs off its end ("normal"), leaves by return or break
\* ("early"), or by an exception of the caller's own code ("error"), which
\* the generator logs and re-raises. The generator's frame, and with it
\* collection_ref, is gone; the caller's variable stays bound.
ExitBlock(how) ==
    /\ pc = "in_block"
    /\ pc' = "idle"
    /\ collection_ref' = NoRef
    /\ last' = Call("exit", Str(held), "None", NoneData, NoFile, how # "error", {},
                    IF how = "error" THEN get_collection_reraise("Exception") ELSE "none",
                    FALSE, how)
    /\ trail' = NoTrail
    /\ UNCHANGED << instance, class_initialized, db, initialized,
                    service_account_path, apps, store, held >>

\* After the block: the caller still holds the reference and uses it.
StaleRequest(kind, id, m, fail) ==
    /\ pc = "idle"
    /\ held # NoRef
    /\ HandleRequest(kind, id, m, fail, "after_exit")
    /\ UNCHANGED << instance, class_initialized, db, initialized,
                    service_account_path, apps, pc, collection_ref, held >>

\* ------------------------------------------------------------ specification
\* The environment answers only when it is asked: a request fails or not once
\* it is sent, and firestore.client() is reached only by a valid file.
Answers(asked) == IF asked THEN BOOLEAN ELSE {FALSE}
ClientAnswers(f) ==
    IF initialize_body(f, apps, "none").stage = "done" THEN ClientFaults ELSE {"none"}

Next ==
    \/ Construct
    \/ \E path \in Paths, f \in Files : \E fault \in ClientAnswers(f) :
           initialize(path, f, fault)
    \/ \E c \in Names, id \in Ids, d \in Datas :
           \E fail \in Answers(set_document_body(initialized, db, c, id, d, FALSE).remote) :
               set_document(c, id, d, fail)
    \/ \E c \in Names, id \in Ids :
           \E fail \in Answers(get_document_body(initialized, db, store, c, id, FALSE).remote) :
               get_document(c, id, fail)
    \/ \E c \in Names, id \in Ids, d \in Datas :
           \E fail \in Answers(update_document_body(initialized, db, store, c, id, d, FALSE, TRUE).remote) :
               \E create \in Answers(~fail /\ update_document_body(initialized, db, store, c, id, d, FALSE, FALSE).note = "not_found") :
                   update_document(c, id, d, fail, create)
    \/ \E name \in Names : EnterBlock(name)
    \/ \E kind \in {"set", "get"}, id \in Ids, m \in Mappings \ {{}} :
           \E fail \in Answers(DocPathOk(id)) : BlockRequest(kind, id, m, fail)
    \/ \E how \in {"normal", "early", "error"} : ExitBlock(how)
    \/ \E kind \in {"set", "get"}, id \in Ids, m \in Mappings \ {{}} :
           \E fail \in Answers(DocPathOk(id)) : StaleRequest(kind, id, m, fail)

Spec == Init /\ [][Next]_vars

\* The same program driven with narrower inputs, so that the part a property
\* is about can be explored in full: the connection steps over every file
\* (SpecConn), the document helpers over every name, identifier and data
\* value (SpecDocs), and a caller's with-blocks (SpecScope).
GoodFile == File(TRUE, TRUE, FALSE, "object", RequiredSet, TRUE)
FewFiles == {GoodFile, NoFile}
FewNames == {Str("users"), EmptyName}
OneMapping == {<< "a", "x" >>}
FewDatas == {Dict(OneMapping), NoneData}

NextConn ==
    \/ Construct
    \/ \E path \in Paths, f \in Files : \E fault \in ClientAnswers(f) :
           initialize(path, f, fault)
    \/ \E c \in FewNames, id \in DocIds, d \in FewDatas :
           \E fail \in Answers(set_document_body(initialized, db, c, id, d, FALSE).remote) :
               set_document(c, id, d, fail)
    \/ \E c \in FewNames, id \in DocIds :
           \E fail \in Answers(get_document_body(initialized, db, store, c, id, FALSE).remote) :
               get_document(c, id, fail)
    \/ \E c \in FewNames, id \in DocIds, d \in FewDatas :
           \E fail \in Answers(update_document_body(initialized, db, store, c, id, d, FALSE, TRUE).remote) :
               update_document(c, id, d, fail, TRUE)
    \/ \E name \in FewNames : EnterBlock(name)
    \/ \E kind \in {"set", "get"}, fail \in BOOLEAN : BlockRequest(kind, "d1", OneMapping, fail)
    \/ \E how \in {"normal", "error"} : ExitBlock(how)
    \/ \E kind \in {"set", "get"}, fail \in BOOLEAN : StaleRequest(kind, "d1", OneMapping, fail)

SpecConn == Init /\ [][NextConn]_vars

NextDocs ==
    \/ Construct
    \/ \E path \in Paths, f \in FewFiles : \E fault \in ClientAnswers(f) :
           initialize(path, f, fault)
    \/ \E c \in Names, id \in Ids, d \in Datas :
           \E fail \in Answers(set_document_body(initialized, db, c, id, d, FALSE).remote) :
               set_document(c, id, d, fail)
    \/ \E c \in Names, id \in Ids :
           \E fail \in Answers(get_document_body(initialized, db, store, c, id, FALSE).remote) :
               get_document(c, id, fail)
    \/ \E c \in Names, id \in Ids, d \in Datas :
           \E fail \in Answers(update_document_body(initialized, db, store, c, id, d, FALSE, TRUE).remote) :
               \E create \in Answers(~fail /\ update_document_body(initialized, db, store, c, id, d, FALSE, FALSE).note = "not_found") :
                   update_document(c, id, d, fail, create)

SpecDocs == Init /\ [][NextDocs]_vars

NextScope ==
    \/ Construct
    \/ \E path \in Paths, f \in FewFiles : \E fault \in ClientAnswers(f) :
           initialize(path, f, fault)
    \/ \E c \in FewNames, d \in FewDatas :
           \E fail \in Answers(set_document_body(initialized, db, c, "d1", d, FALSE).remote) :
               set_document(c, "d1", d, fail)
    \/ \E c \in FewNames :
           \E fail \in Answers(get_document_body(initialized, db, store, c, "d1", FALSE).remote) :
               get_document(c, "d1", fail)
    \/ \E name \in Names : EnterBlock(name)
    \/ \E kind \in {"set", "get"}, id \in Ids, m \in Mappings \ {{}} :
           \E fail \in Answers(DocPathOk(id)) : BlockRequest(kind, id, m, fail)
    \/ \E how \in {"normal", "early", "error"} : ExitBlock(how)
    \/ \E kind \in {"set", "get"}, id \in Ids, m \in Mappings \ {{}} :
           \E fail \in Answers(DocPathOk(id)) : StaleRequest(kind, id, m, fail)

SpecScope == Init /\ [][NextScope]_vars

\* ------------------------------------------------------------------ claims
\* A file lacks a required field: one of the eight names is not in it.
LacksField(f) == RequiredSet \ f.fields # {}
\* A file initialize() can pass: readable JSON object, all fields, accepted
\* by credentials.Certificate.
Usable(f) ==
    /\ f.exists /\ f.readable /\ ~f.isdir
    /\ f.json = "object" /\ ~LacksField(f) /\ f.cert
ValidData(d) == IsDict(d) /\ d.m # {}
ValidName(n) == IsStr(n) /\ n.s # ""
\* The document <<c, id>> holds data in the store.
Stored(st, c, id) == ValidName(c) /\ id \in DocIds /\ st[<< c.s, id >>].exists

\* C1: initialize() never raises to its caller; every failure (missing,
\* unreadable or unopenable file, malformed content, missing field, provider
\* or unexpected error) makes it return False, and it returns True only with
\* the store handle stored and the state marked initialized.
C1_InitializeNeverRaises ==
    last.op = "initialize" =>
        /\ last.raised = "none"
        /\ (~Usable(last.file) => ~last.ret)
        /\ (last.note \in {"initialize_app", "client"} => ~last.ret)
        /\ (last.ret => db # 0 /\ initialized /\ service_account_path = last.id)
C1_Witness ==
    /\ last.op = "initialize"
    /\ last.note = "initialize_app"
    /\ Usable(last.file)
    /\ ~last.ret
    /\ last.raised = "none"

\* C2: a credentials file that lacks one of the eight required fields makes
\* initialize() return False without reaching the provider connection step,
\* and that call leaves the store handle, the initialized flag, the recorded
\* path and the provider's apps as they were.
C2_MissingFieldIsTerminal ==
    [][ (last'.op = "initialize" /\ LacksField(last'.file)) =>
            /\ ~last'.ret
            /\ last'.raised = "none"
            /\ ~last'.remote
            /\ db' = db
            /\ initialized' = initialized
            /\ service_account_path' = service_account_path
            /\ apps' = apps ]_vars
C2_Witness ==
    /\ last.op = "initialize"
    /\ last.file.json = "object"
    /\ last.file.cert
    /\ Cardinality(RequiredSet \ last.file.fields) = 1
    /\ last.note = "missing_field"
    /\ ~last.ret
    /\ ~initialized

\* C8: once initialized, the manager stays initialized with the same store
\* handle across every later call (initialize again, set/get/update, scoped
\* access, constructing FirebaseService() again), and the provider never has
\* more than one app.
C8_InitializedIsPermanent ==
    [][ /\ (initialized => initialized' /\ db' = db /\ db' # 0)
        /\ apps' <= 1 ]_vars
C8_Witness ==
    /\ initialized
    /\ db = 1
    /\ last.op = "construct"

\* C3: before any successful initialize(), set_document and update_document
\* return False and get_document returns None, for every collection name,
\* identifier and data value; none of them raises, none sends a request, and
\* the store holds no document.
C3_HelpersBeforeInitialize ==
    ~initialized =>
        /\ \A d \in Docs : ~store[d].exists
        /\ last.op \in {"set", "get", "update"} =>
               /\ ~last.ret
               /\ last.val = {}
               /\ last.raised = "none"
               /\ ~last.remote
C3_Witness ==
    /\ ~initialized
    /\ last.op = "set"
    /\ ValidName(last.c)
    /\ last.id \in DocIds
    /\ ValidData(last.data)
    /\ ~last.ret

C6_BadDataWritesNothing ==
    [][ (last'.op = "set" /\ ~ValidData(last'.data)) =>
            /\ ~last'.ret
            /\ last'.raised = "none"
            /\ ~last'.remote
            /\ store' = store ]_vars
C6_Witness ==
    /\ initialized
    /\ last.op = "set"
    /\ last.data = Dict({})
    /\ Stored(store, last.c, last.id)
    /\ ~last.ret

\* C7: get_document on a document that was never written returns None and
\* does not raise; the store and the connection state stay as they were.
C7_GetMissingIsAbsent ==
    [][ (last'.op = "get" /\ ~Stored(store, last'.c, last'.id)) =>
            /\ ~last'.ret
            /\ last'.val = {}
            /\ last'.raised = "none"
            /\ store' = store
            /\ << db, initialized, service_account_path, apps >>'
                   = << db, initialized, service_account_path, apps >> ]_vars
C7_Witness ==
    /\ initialized
    /\ last.op = "get"
    /\ last.note = "not_found"
    /\ last.remote
    /\ ~last.ret
    /\ \E d \in Docs : store[d].exists

\* C10 as stated: after two successful set_document calls in a row on one
\* document, first d1 and then d2, get_document returns exactly d2.
C10_AsStated ==
    ( /\ last.op = "get"
      /\ Len(trail.ds) = 2
      /\ trail.c = last.c.s /\ trail.id = last.id )
    => (last.ret /\ last.val = trail.ds[2])
\* C10 amended: a successful set_document replaces the document by its data
\* and changes no other document; after two in a row on one document, d1 and
\* then d2, get_document returns exactly d2 (no key of d1 survives), or None
\* when the provider fails on the read.
C10_SetReplaces ==
    [][ /\ (last'.op = "set" /\ last'.ret) =>
               store' = [store EXCEPT ![<< last'.c.s, last'.id >>] = Present(last'.data.m)]
        /\ ( /\ last'.op = "get"
             /\ Len(trail'.ds) = 2
             /\ trail'.c = last'.c.s /\ trail'.id = last'.id )
           => \/ last'.ret /\ last'.val = trail'.ds[2]
              \/ ~last'.ret /\ last'.val = {} /\ last'.note = "failed" /\ last'.remote ]_vars
C10_Witness ==
    /\ last.op = "get"
    /\ last.ret
    /\ Len(trail.ds) = 2
    /\ trail.c = last.c.s /\ trail.id = last.id
    /\ trail.ds[1] \ trail.ds[2] # {}
    /\ last.val = trail.ds[2]
    /\ \E d \in Docs : d # << trail.c, trail.id >> /\ store[d].exists

\* C4: entering get_collection before a successful initialize() raises
\* RuntimeError, and entering it initialized with an empty or non-string name
\* raises ValueError; either way nothing is yielded (the caller's variable
\* and position are unchanged) and the store is not touched.
C4_ScopedAccessRefuses ==
    [][ last'.op = "enter" =>
          /\ (~initialized => last'.raised = "RuntimeError")
          /\ (initialized /\ ~ValidName(last'.c) => last'.raised = "ValueError")
          /\ (initialized /\ ValidName(last'.c) => last'.raised = "none")
          /\ last'.raised # "none" =>
                 /\ ~last'.ret
                 /\ ~last'.remote
                 /\ pc' = "idle" /\ collection_ref' = NoRef
                 /\ held' = held
                 /\ store' = store ]_vars
C4_Witness ==
    /\ initialized
    /\ last.op = "enter"
    /\ last.c = IntName
    /\ last.raised = "ValueError"
    /\ pc = "idle"

\* C9 as stated: once the block has ended, no operation is performed through
\* the handle it yielded.
C9_AsStated ==
    ~( /\ last.op \in {"handle_set", "handle_get"}
       /\ last.note = "after_exit"
       /\ last.remote
       /\ last.raised = "none" )
\* C9 amended: the handle is held by the context manager only while the
\* block runs; on every exit path the manager drops its own reference, sends
\* nothing, and re-raises an error of the block to the caller; the handle
\* itself is not invalidated, and a request through it after the block is
\* sent like any other.
C9_ScopeEndsManagerOnly ==
    /\ (pc = "idle" <=> collection_ref = NoRef)
    /\ last.op = "exit" =>
           /\ pc = "idle"
           /\ ~last.remote
           /\ (last.note = "error" <=> last.raised # "none")
    /\ (last.op \in {"handle_set", "handle_get"} /\ last.note = "in_block") =>
           ((last.raised # "none") <=> pc = "idle")
    /\ (last.op \in {"handle_set", "handle_get"} /\ last.note = "after_exit") =>
           (last.remote <=> DocPathOk(last.id))
C9_Witness ==
    /\ last.op = "exit"
    /\ last.note = "error"
    /\ last.raised = "Exception"
    /\ pc = "idle"
    /\ held # NoRef

====
